---- MODULE Spec2Model ----
(***************************************************************************)
(* The entity supervisor of riker-cqrs (src/src/lib.rs): EntityActor keeps *)
(* a registry `instances` from entity id to a worker handle and the time   *)
(* of the last command, creates a worker on the first command for an id,   *)
(* and on every Tick stops and forgets the workers idle for longer than    *)
(* `sleep_after`.                                                          *)
(*                                                                         *)
(* The actor runtime (riker) is not part of the repository.  It is         *)
(* modelled only as far as the supervisor calls it: a table of the workers *)
(* created under the supervisor, their mailboxes, the timer, and the       *)
(* supervisor's own mailbox.  ctx.stop is asynchronous: the name of a      *)
(* stopped worker stays taken until the runtime has terminated it, and     *)
(* ctx.actor_of fails for a name that is taken.  A panic of the supervisor *)
(* (an unwrap of an Err, an overflow in the time arithmetic) leaves it     *)
(* "faulted"; what the runtime's supervision does next is not modelled.    *)
(*                                                                         *)
(* SystemTime::now() is modelled by a clock `now` that never goes back.    *)
(* The timer runs on the runtime's own clock, so a scheduled Tick may be   *)
(* delivered at any reading of `now`.                                      *)
(***************************************************************************)
EXTENDS Integers, Sequences, FiniteSets, TLC

\* ---------------------------------------------------------------- bounds
Ids == {"A", "B"}              \* entity identifiers the senders use
Payloads == {"x", "y"}         \* command payloads (opaque to the supervisor)
Senders == {"none", "s1"}      \* Option<ActorRef>: None or Some(s1)
MaxTime == 2                   \* the clock stops advancing here
MaxCmds == 2                   \* commands sent in one behaviour
MaxMailbox == 2                \* commands waiting in the supervisor's mailbox
TimeBits == 10                 \* scaled width of SystemTime seconds (i64) and Duration seconds (u64)
ConfigValues == {0, 1, 2, -1}  \* values of cqrs.sleep_after_secs tried

MinTime == -(2 ^ (TimeBits - 1))
NoTime == MinTime - 1          \* "no command routed yet" in the bookkeeping below

VARIABLES
    status,       \* supervisor: "created" (before pre_start), "running", "faulted"
    instances,    \* EntityActor.instances: id -> [actor, last_used]
    sleep_after,  \* EntityActor.sleep_after, in seconds
    now,          \* SystemTime::now()
    mailbox,      \* the supervisor's mailbox: messages sent and not yet received
    timers,       \* Ticks scheduled with schedule_once and not yet delivered
    workers,      \* runtime: the workers created under the supervisor, by handle
    inbox,        \* runtime: what was told to each worker handle, in order
    ncmds,        \* commands sent so far
    calls,        \* bookkeeping: actor_of calls made per id
    routed,       \* bookkeeping: per id, the commands handled, in order
    lastRouted,   \* bookkeeping: per id, the time of the last command handled
    lastSweep     \* bookkeeping: the last sweep, while no command was handled since

vars == <<status, instances, sleep_after, now, mailbox, timers, workers, inbox,
          ncmds, calls, routed, lastRouted, lastSweep>>

\* ------------------------------------------------------------- messages
TickMsg == [type |-> "Tick", id |-> "-", cmd |-> "-", sender |-> "none"]

CmdMsg(id, cmd, sender) == [type |-> "Cmd", id |-> id, cmd |-> cmd, sender |-> sender]

\* ------------------------------------------------------- configuration
\* `config.get_int(..).unwrap() as u64`: an i64 reinterpreted as u64
AsU64(i) == i % (2 ^ TimeBits)

\* ------------------------------------------------------------- runtime
Handles == DOMAIN workers

\* the runtime refuses a child name that is still registered
NameInUse(ws, id) == \E h \in DOMAIN ws : ws[h].name = id /\ ~ws[h].terminated

\* mutant: the message jumps the queue
TellFront(ib, h, m) == [ib EXCEPT ![h] = <<m>> \o @]

\* ActorRef::tell: append to the mailbox of the worker
Tell(ib, h, m) == [ib EXCEPT ![h] = Append(@, m)]

\* ctx.stop(&actor): one stop instruction for the handle
Stop(ws, h) == [ws EXCEPT ![h].stops = @ + 1]

\* mutant: the stop loop ends after its first round
StopFirst(ws, hs) ==
    IF hs = <<>> THEN ws ELSE Stop(ws, Head(hs))

RECURSIVE StopAll(_, _)
StopAll(ws, hs) ==
    IF hs = <<>> THEN ws ELSE StopAll(Stop(ws, Head(hs)), Tail(hs))

\* a set as a sequence, in some order (HashMap::drain has no defined order)
RECURSIVE SetToSeq(_)
SetToSeq(S) ==
    IF S = {} THEN <<>>
    ELSE LET e == CHOOSE x \in S : TRUE IN <<e>> \o SetToSeq(S \ {e})

\* ----------------------------------------------------------- supervisor
\* mutant: the lookup never finds the entry
ContainsKeyNever(insts, id) == FALSE

\* self.instances.contains_key(&id)
ContainsKey(insts, id) == id \in DOMAIN insts

\* SystemTime::now() - self.sleep_after panics when the result is not representable
SubOverflows(t, d) == t - d < MinTime

\* mutant: the window is added instead of subtracted
ThreshholdPlus(t, d) == t + d

\* the cutoff of the sweep: SystemTime::now() - self.sleep_after
Threshhold(t, d) == t - d

\* mutant: an entry has to be idle one second longer
IsIdleLate(threshhold, instance) == threshhold > instance.last_used + 1

\* the partition predicate: threshhold > instance.last_used
IsIdle(threshhold, instance) == threshhold > instance.last_used

\* mutant: every entry goes to the stop side as well
StopKeysAll(insts, threshhold) == DOMAIN insts

\* the `stop` half of the partition
StopKeys(insts, threshhold) == {k \in DOMAIN insts : IsIdle(threshhold, insts[k])}

\* mutant: every entry goes to the keep side as well
KeepKeysAll(insts, threshhold) == DOMAIN insts

\* the `keep` half of the partition
KeepKeys(insts, threshhold) == {k \in DOMAIN insts : ~IsIdle(threshhold, insts[k])}

\* mutant: the drained entries are not re-inserted
KeepNone(insts, threshhold) == [k \in {} |-> insts[k]]

\* mutant: the kept entries come back with the cutoff as their last_used
KeepReset(insts, threshhold) ==
    [k \in KeepKeys(insts, threshhold) |-> [insts[k] EXCEPT !.last_used = threshhold]]

\* mutant: the stopped entries are re-inserted too
KeepAll(insts, threshhold) == insts

\* the keep loop: re-insert the entries that are not due to sleep
Keep(insts, threshhold) == [k \in KeepKeys(insts, threshhold) |-> insts[k]]

\* mutant: two Ticks are scheduled
ScheduleTickTwice(n) == n + 2

\* schedule_tick: one more one-shot Tick
ScheduleTick(n) == n + 1

\* bookkeeping: no sweep yet, or a command was handled since the last one
NoSweep == [done |-> FALSE, at |-> 0, prev |-> NoTime, evicted |-> {}, stopped |-> {},
            quiet |-> FALSE, repeat |-> FALSE]

Init ==
    /\ status = "created"
    /\ instances = <<>>
    /\ sleep_after \in {AsU64(c) : c \in ConfigValues}
    /\ now = 0
    /\ mailbox = <<>>
    /\ timers = 0
    /\ workers = <<>>
    /\ inbox = <<>>
    /\ ncmds = 0
    /\ calls = [k \in Ids |-> 0]
    /\ routed = [k \in Ids |-> <<>>]
    /\ lastRouted = [k \in Ids |-> NoTime]
    /\ lastSweep = NoSweep

\* Actor::pre_start
PreStart ==
    /\ status = "created"
    /\ status' = "running"
    /\ timers' = ScheduleTick(timers)
    /\ UNCHANGED <<instances, sleep_after, now, mailbox, workers, inbox,
                   ncmds, calls, routed, lastRouted, lastSweep>>

\* a sender tells the supervisor CQMsg::Cmd(id, cmd)
Send(id, cmd, sender) ==
    /\ status # "faulted"
    /\ ncmds < MaxCmds
    /\ Len(SelectSeq(mailbox, LAMBDA m : m.type = "Cmd")) < MaxMailbox
    /\ mailbox' = Append(mailbox, CmdMsg(id, cmd, sender))
    /\ ncmds' = ncmds + 1
    /\ UNCHANGED <<status, instances, sleep_after, now, timers, workers, inbox,
                   calls, routed, lastRouted, lastSweep>>

\* the runtime delivers a scheduled Tick to the supervisor's mailbox
TimerFire ==
    /\ timers > 0
    /\ timers' = timers - 1
    /\ mailbox' = Append(mailbox, TickMsg)
    /\ UNCHANGED <<status, instances, sleep_after, now, workers, inbox,
                   ncmds, calls, routed, lastRouted, lastSweep>>

\* the clock advances
Advance ==
    /\ now < MaxTime
    /\ now' = now + 1
    /\ UNCHANGED <<status, instances, sleep_after, mailbox, timers, workers, inbox,
                   ncmds, calls, routed, lastRouted, lastSweep>>

\* the runtime finishes stopping a worker; its name becomes free
Terminate(h) ==
    /\ h \in Handles
    /\ workers[h].stops > 0
    /\ ~workers[h].terminated
    /\ workers' = [workers EXCEPT ![h].terminated = TRUE]
    /\ UNCHANGED <<status, instances, sleep_after, now, mailbox, timers, inbox,
                   ncmds, calls, routed, lastRouted, lastSweep>>

\* mutant: the command is forwarded but last_used is not refreshed
HandleCmdRunningStale(m) ==
    /\ ContainsKey(instances, m.id)
    /\ inbox' = Tell(inbox, instances[m.id].actor, [cmd |-> m.cmd, sender |-> m.sender])
    /\ UNCHANGED <<status, instances, workers, calls>>

\* handle_cmd, the branch `State: running`
HandleCmdRunning(m) ==
    /\ ContainsKey(instances, m.id)
    /\ inbox' = Tell(inbox, instances[m.id].actor, [cmd |-> m.cmd, sender |-> m.sender])
    /\ instances' = [instances EXCEPT ![m.id].last_used = now]
    /\ UNCHANGED <<status, workers, calls>>

\* mutant: the Err of actor_of is ignored and the supervisor carries on
HandleCmdAsleepSwallow(m) ==
    /\ ~ContainsKey(instances, m.id)
    /\ calls' = [calls EXCEPT ![m.id] = @ + 1]
    /\ IF NameInUse(workers, m.id)
       THEN UNCHANGED <<status, instances, workers, inbox>>
       ELSE LET h == Len(workers) + 1 IN
            /\ workers' = Append(workers, [name |-> m.id, stops |-> 0, terminated |-> FALSE])
            /\ inbox' = Tell(Append(inbox, <<>>), h, [cmd |-> m.cmd, sender |-> m.sender])
            /\ instances' = (m.id :> [actor |-> h, last_used |-> now]) @@ instances
            /\ UNCHANGED status

\* mutant: the new entry replaces the whole registry
HandleCmdAsleepAlone(m) ==
    /\ ~ContainsKey(instances, m.id)
    /\ calls' = [calls EXCEPT ![m.id] = @ + 1]
    /\ IF NameInUse(workers, m.id)
       THEN /\ status' = "faulted"
            /\ UNCHANGED <<instances, workers, inbox>>
       ELSE LET h == Len(workers) + 1 IN
            /\ workers' = Append(workers, [name |-> m.id, stops |-> 0, terminated |-> FALSE])
            /\ inbox' = Tell(Append(inbox, <<>>), h, [cmd |-> m.cmd, sender |-> m.sender])
            /\ instances' = (m.id :> [actor |-> h, last_used |-> now])
            /\ UNCHANGED status

\* handle_cmd, the branch `State: asleep`
HandleCmdAsleep(m) ==
    /\ ~ContainsKey(instances, m.id)
    /\ calls' = [calls EXCEPT ![m.id] = @ + 1]
    /\ IF NameInUse(workers, m.id)
       THEN \* actor_of returns Err(AlreadyExists); unwrap panics
            /\ status' = "faulted"
            /\ UNCHANGED <<instances, workers, inbox>>
       ELSE LET h == Len(workers) + 1 IN
            /\ workers' = Append(workers, [name |-> m.id, stops |-> 0, terminated |-> FALSE])
            /\ inbox' = Tell(Append(inbox, <<>>), h, [cmd |-> m.cmd, sender |-> m.sender])
            /\ instances' = (m.id :> [actor |-> h, last_used |-> now]) @@ instances
            /\ UNCHANGED status

\* other_receive, ActorMsg::CQ(CQMsg::Cmd(id, cmd)) => handle_cmd
HandleCmd ==
    /\ status = "running"
    /\ mailbox # <<>>
    /\ Head(mailbox).type = "Cmd"
    /\ mailbox' = Tail(mailbox)
    /\ LET m == Head(mailbox) IN
         /\ \/ HandleCmdRunning(m)
            \/ HandleCmdAsleep(m)
         /\ routed' = [routed EXCEPT ![m.id] = Append(@, [cmd |-> m.cmd, sender |-> m.sender])]
         /\ lastRouted' = [lastRouted EXCEPT ![m.id] = now]
    /\ lastSweep' = NoSweep
    /\ UNCHANGED <<sleep_after, now, timers, ncmds>>

\* sleep_instances
SleepInstances ==
    IF SubOverflows(now, sleep_after)
    THEN \* `SystemTime::now() - self.sleep_after` panics
         /\ status' = "faulted"
         /\ UNCHANGED <<instances, workers, timers, lastSweep>>
    ELSE LET threshhold == Threshhold(now, sleep_after)
             stop == StopKeys(instances, threshhold)
         IN  /\ workers' = StopAll(workers, SetToSeq({instances[k].actor : k \in stop}))
             /\ instances' = Keep(instances, threshhold)
             /\ lastSweep' = [done |-> TRUE, at |-> now,
                              prev |-> IF lastSweep.done THEN lastSweep.at ELSE NoTime,
                              evicted |-> stop,
                              stopped |-> {instances[k].actor : k \in stop},
                              quiet |-> TRUE,
                              repeat |-> /\ lastSweep.done /\ lastSweep.quiet
                                         /\ lastSweep.evicted # {} /\ lastSweep.at = now]
             /\ timers' = ScheduleTick(timers)
             /\ UNCHANGED status

\* other_receive, ActorMsg::Tick => sleep_instances; schedule_tick
HandleTick ==
    /\ status = "running"
    /\ mailbox # <<>>
    /\ Head(mailbox).type = "Tick"
    /\ mailbox' = Tail(mailbox)
    /\ SleepInstances
    /\ UNCHANGED <<sleep_after, now, inbox, ncmds, calls, routed, lastRouted>>

Next ==
    \/ PreStart
    \/ \E id \in Ids, cmd \in Payloads, sender \in Senders : Send(id, cmd, sender)
    \/ TimerFire
    \/ Advance
    \/ \E h \in Handles : Terminate(h)
    \/ HandleCmd
    \/ HandleTick

Spec == Init /\ [][Next]_vars

\* ---------------------------------------------------- the 60 s scenario
\* The same supervisor with a window of 60 seconds and a clock that reads
\* 0, 30, 65 and 200.
ScenarioConfig == {60}

ScenarioTimes == {0, 30, 65, 200}

ScenarioInit ==
    /\ status = "created"
    /\ instances = <<>>
    /\ sleep_after \in {AsU64(c) : c \in ScenarioConfig}
    /\ now = 0
    /\ mailbox = <<>>
    /\ timers = 0
    /\ workers = <<>>
    /\ inbox = <<>>
    /\ ncmds = 0
    /\ calls = [k \in Ids |-> 0]
    /\ routed = [k \in Ids |-> <<>>]
    /\ lastRouted = [k \in Ids |-> NoTime]
    /\ lastSweep = NoSweep

\* the clock moves on to a later reading of the scenario
ScenarioAdvance ==
    /\ \E t \in ScenarioTimes :
          /\ t > now
          /\ \A u \in ScenarioTimes : u > now => t <= u
          /\ now' = t
    /\ UNCHANGED <<status, instances, sleep_after, mailbox, timers, workers, inbox,
                   ncmds, calls, routed, lastRouted, lastSweep>>

ScenarioNext ==
    \/ PreStart
    \/ \E id \in Ids, cmd \in Payloads, sender \in Senders : Send(id, cmd, sender)
    \/ TimerFire
    \/ ScenarioAdvance
    \/ \E h \in Handles : Terminate(h)
    \/ HandleCmd
    \/ HandleTick

ScenarioSpec == ScenarioInit /\ [][ScenarioNext]_vars

\* ------------------------------------------- a supervisor already at work
\* The supervisor has started and has handled one command, at time 0; the
\* runtime delivers what is scheduled, the supervisor handles what it
\* receives, and the clock advances.
BusyInit ==
    /\ status = "running"
    /\ sleep_after \in {AsU64(c) : c \in ConfigValues}
    /\ now = 0
    /\ mailbox = <<>>
    /\ timers = 1
    /\ ncmds = 0
    /\ lastSweep = NoSweep
    /\ \E k \in Ids, cmd \in Payloads, sender \in Senders :
          /\ instances = (k :> [actor |-> 1, last_used |-> 0])
          /\ workers = <<[name |-> k, stops |-> 0, terminated |-> FALSE]>>
          /\ inbox = <<<<[cmd |-> cmd, sender |-> sender]>>>>
          /\ calls = [j \in Ids |-> IF j = k THEN 1 ELSE 0]
          /\ routed = [j \in Ids |-> IF j = k THEN <<[cmd |-> cmd, sender |-> sender]>> ELSE <<>>]
          /\ lastRouted = [j \in Ids |-> IF j = k THEN 0 ELSE NoTime]

BusyNext ==
    \/ \E id \in Ids, cmd \in Payloads, sender \in Senders : Send(id, cmd, sender)
    \/ TimerFire
    \/ Advance
    \/ \E h \in Handles : Terminate(h)
    \/ HandleCmd
    \/ HandleTick

BusyFairSpec ==
    /\ BusyInit
    /\ [][BusyNext]_vars
    /\ WF_vars(TimerFire)
    /\ WF_vars(Advance)
    /\ WF_vars(HandleCmd)
    /\ WF_vars(HandleTick)
    /\ WF_vars(\E h \in Handles : Terminate(h))

TypeOK ==
    /\ status \in {"created", "running", "faulted"}
    /\ DOMAIN instances \subseteq Ids
    /\ \A k \in DOMAIN instances : instances[k].actor \in Handles
    /\ now \in 0..MaxTime
    /\ timers \in Nat
    /\ Len(inbox) = Len(workers)

\* ------------------------------------------------------ steps and sets
\* the supervisor receives a command for k in this step
CmdStep(k) ==
    /\ status = "running"
    /\ mailbox # <<>>
    /\ Head(mailbox).type = "Cmd"
    /\ Head(mailbox).id = k
    /\ mailbox' = Tail(mailbox)

\* the supervisor receives a Tick in this step
TickStep ==
    /\ status = "running"
    /\ mailbox # <<>>
    /\ Head(mailbox).type = "Tick"
    /\ mailbox' = Tail(mailbox)

\* what the command at the head of the mailbox tells the worker
HeadTold == [cmd |-> Head(mailbox).cmd, sender |-> Head(mailbox).sender]

HandlesOf(k) == {h \in Handles : workers[h].name = k}

\* handles of k that were never told to stop
LiveHandles(k) == {h \in HandlesOf(k) : workers[h].stops = 0}

\* stop instructions issued for h in this step
StopsIssued(h) == workers'[h].stops - workers[h].stops

RECURSIVE ToldTo(_, _)
\* everything told to the workers of k, from the first handle to handle n
ToldTo(k, n) ==
    IF n = 0 THEN <<>>
    ELSE ToldTo(k, n - 1) \o (IF workers[n].name = k THEN inbox[n] ELSE <<>>)

IsPrefix(s, t) == Len(s) <= Len(t) /\ SubSeq(t, 1, Len(s)) = s

\* ---------------------------------------------------------------- claims
\* C1: at most one worker per identifier.  An actor_of call for k is made
\* only when k has no registry entry and every handle created for k before
\* has been told to stop by a sweep; at no time are there two handles of k
\* that were not told to stop.
C1_AtMostOneWorker ==
    /\ [](\A k \in Ids : Cardinality(LiveHandles(k)) <= 1)
    /\ [][\A k \in Ids : calls'[k] > calls[k] =>
              /\ k \notin DOMAIN instances
              /\ LiveHandles(k) = {}]_vars

C1_Witness ==
    \E k \in DOMAIN instances :
        /\ calls[k] = 2
        /\ Cardinality(HandlesOf(k)) = 2
        /\ Cardinality(LiveHandles(k)) = 1

\* C2: reuse.  A command for an identifier that has a registry entry is told
\* to the stored handle, no actor_of call is made, no worker is created, the
\* stored handle stays and last_used becomes the time of the call.
C2_Reuse ==
    [][\A k \in Ids : (CmdStep(k) /\ k \in DOMAIN instances) =>
          /\ k \in DOMAIN instances'
          /\ instances'[k].actor = instances[k].actor
          /\ instances'[k].last_used = now
          /\ calls' = calls
          /\ workers' = workers
          /\ inbox' = [inbox EXCEPT ![instances[k].actor] = Append(@, HeadTold)]]_vars

C2_Witness ==
    \E k \in DOMAIN instances :
        /\ Len(inbox[instances[k].actor]) >= 2
        /\ instances[k].last_used > 0
        /\ calls[k] = 1

\* C3 as stated: an entry whose last command is W or more ago (exactly W
\* included) is removed and stopped by the next sweep.
C3_IdleEvictionAtLeastW ==
    [][\A k \in Ids : (TickStep /\ k \in DOMAIN instances
                        /\ now - lastRouted[k] >= sleep_after) =>
          /\ k \notin DOMAIN instances'
          /\ StopsIssued(instances[k].actor) = 1]_vars

\* C3 amended: an entry whose last command is strictly more than W ago is
\* removed and stopped by the next sweep.
C3_IdleEviction ==
    [][\A k \in Ids : (TickStep /\ k \in DOMAIN instances
                        /\ now - lastRouted[k] > sleep_after) =>
          /\ k \notin DOMAIN instances'
          /\ StopsIssued(instances[k].actor) = 1]_vars

C3_Witness ==
    /\ lastSweep.done
    /\ lastSweep.quiet
    /\ \E k \in lastSweep.evicted :
          /\ k \notin DOMAIN instances
          /\ lastSweep.at - lastRouted[k] > sleep_after
          /\ sleep_after > 0

\* C4: no premature eviction.  A sweep evaluated strictly before t + W, t the
\* time of the last command for k, keeps k and issues no stop for its worker.
C4_NoPrematureEviction ==
    [][\A k \in Ids : (TickStep /\ k \in DOMAIN instances
                        /\ now < lastRouted[k] + sleep_after) =>
          /\ k \in DOMAIN instances'
          /\ instances'[k] = instances[k]
          /\ StopsIssued(instances[k].actor) = 0]_vars

C4_Witness ==
    /\ lastSweep.done
    /\ lastSweep.quiet
    /\ \E k \in DOMAIN instances :
          /\ lastRouted[k] < lastSweep.at
          /\ lastSweep.at < lastRouted[k] + sleep_after

\* C5: reactivation.  A command for an identifier that was evicted before
\* creates a new handle, tells the payload to it and inserts the entry; the
\* supervisor does not fault.
C5_Reactivation ==
    [][\A k \in Ids : (CmdStep(k) /\ k \notin DOMAIN instances /\ HandlesOf(k) # {}) =>
          /\ status' = "running"
          /\ k \in DOMAIN instances'
          /\ instances'[k].actor \notin Handles
          /\ instances'[k].last_used = now
          /\ inbox'[instances'[k].actor] = <<HeadTold>>]_vars

\* C6: sweep idempotence.  A sweep that follows a sweep with no command in
\* between stops no handle the first one stopped, finds none of the evicted
\* identifiers, and changes nothing when the clock did not advance; no handle
\* is ever told to stop twice.
C6_SweepIdempotence ==
    /\ [](\A h \in Handles : workers[h].stops <= 1)
    /\ [][(TickStep /\ lastSweep.done /\ lastSweep.quiet) =>
              /\ \A h \in lastSweep.stopped : StopsIssued(h) = 0
              /\ lastSweep.evicted \cap DOMAIN instances = {}
              /\ (now = lastSweep.at => instances' = instances /\ workers' = workers)]_vars

C6_Witness == lastSweep.repeat /\ lastSweep.quiet /\ DOMAIN instances # {}

\* C7: per-identifier ordering.  What was told to the workers of k, handle
\* after handle, is what the supervisor handled for k, in that order; a
\* command for k that finds k in the registry goes to the handle that was
\* told the previous command for k.
C7_Ordering ==
    /\ [](\A k \in Ids :
            /\ IsPrefix(ToldTo(k, Len(workers)), routed[k])
            /\ (status # "faulted" => ToldTo(k, Len(workers)) = routed[k]))
    /\ [][\A k \in Ids : (CmdStep(k) /\ k \in DOMAIN instances) =>
              LET h == instances[k].actor IN
              /\ inbox[h] # <<>>
              /\ inbox[h][Len(inbox[h])] = routed[k][Len(routed[k])]
              /\ inbox'[h] = Append(inbox[h], HeadTold)]_vars

C7_Witness ==
    \E k \in DOMAIN instances :
        /\ Len(inbox[instances[k].actor]) = 2
        /\ inbox[instances[k].actor][1].cmd # inbox[instances[k].actor][2].cmd
        /\ routed[k] = inbox[instances[k].actor]

\* C8: sweep partition exactness.  A sweep issues exactly one stop for the
\* handle of each entry with last_used < now - W and none for another handle,
\* and the registry keys after it are the keys with last_used >= now - W.
C8_PartitionExact ==
    [][TickStep =>
          /\ \A h \in Handles :
                StopsIssued(h) =
                    Cardinality({k \in DOMAIN instances :
                                    /\ instances[k].actor = h
                                    /\ instances[k].last_used < now - sleep_after})
          /\ Len(workers') = Len(workers)
          /\ DOMAIN instances' =
                {k \in DOMAIN instances : instances[k].last_used >= now - sleep_after}]_vars

C8_Witness ==
    /\ lastSweep.done
    /\ lastSweep.quiet
    /\ lastSweep.evicted = {"A"}
    /\ DOMAIN instances = {"B"}
    /\ \E h \in Handles : workers[h].name = "A" /\ workers[h].stops = 1
    /\ \A h \in Handles : workers[h].name = "B" => workers[h].stops = 0

\* C9: registry/runtime consistency.  Every registry entry maps to a handle
\* the supervisor created under that identifier and never told to stop.
C9_RegistryLive ==
    \A k \in DOMAIN instances :
        /\ instances[k].actor \in Handles
        /\ workers[instances[k].actor].name = k
        /\ workers[instances[k].actor].stops = 0
        /\ ~workers[instances[k].actor].terminated

C9_Witness ==
    /\ lastSweep.done
    /\ lastSweep.evicted # {}
    /\ DOMAIN instances # {}
    /\ \E h \in Handles : workers[h].terminated

\* C10: no piled-up sweeps.  A Tick is scheduled only by pre_start and by the
\* handling of a Tick, and at most one Tick is scheduled or in the mailbox.
TicksOutstanding == timers + Len(SelectSeq(mailbox, LAMBDA m : m.type = "Tick"))

C10_OneTick ==
    /\ [](TicksOutstanding <= 1)
    /\ [][timers' > timers =>
              \/ status = "created" /\ status' = "running"
              \/ TickStep /\ TicksOutstanding = 1]_vars

C10_Witness == lastSweep.done /\ timers = 1 /\ mailbox # <<>>

\* C11: perpetual sweeps.  Every handling of a Tick schedules the next Tick,
\* so that sweeps go on for ever.
C11_TickRescheduled ==
    [][TickStep => timers' = timers + 1]_vars

\* C12: delivery-once routing.  Every command handled is told exactly once,
\* unmodified and with its sender, to a worker named by its entity id, and to
\* no other worker.
C12_DeliveryOnce ==
    [][\A k \in Ids : CmdStep(k) =>
          \E h \in DOMAIN inbox' :
              /\ workers'[h].name = k
              /\ inbox'[h] = (IF h \in DOMAIN inbox THEN inbox[h] ELSE <<>>) \o <<HeadTold>>
              /\ \A g \in DOMAIN inbox' \ {h} : g \in DOMAIN inbox /\ inbox'[g] = inbox[g]]_vars

\* C13: a sweep is fail-silent.  Whatever the registry, the time and the
\* configured window, the handling of a Tick leaves the supervisor running
\* and removes zero or more entries.
C13_SweepNeverFaults ==
    [][TickStep => status' = "running" /\ DOMAIN instances' \subseteq DOMAIN instances]_vars

\* C14: a failure to create the worker is not swallowed.  When actor_of fails
\* for the identifier of the command, the supervisor faults, inserts no entry,
\* creates no worker and tells the payload to nobody.
C14_CreateFailureFaults ==
    [][\A k \in Ids : (CmdStep(k) /\ k \notin DOMAIN instances /\ NameInUse(workers, k)) =>
          /\ status' = "faulted"
          /\ instances' = instances
          /\ workers' = workers
          /\ inbox' = inbox]_vars

C14_Witness ==
    /\ status = "faulted"
    /\ \E k \in Ids :
          /\ calls[k] > Cardinality(HandlesOf(k))
          /\ k \notin DOMAIN instances
          /\ Len(routed[k]) > Len(ToldTo(k, Len(workers)))

\* C15: per-identifier lifecycle.  The registry is empty before the supervisor
\* starts; an identifier enters the registry only in the handling of a command
\* for it, and leaves it only in a sweep that finds it idle.
C15_Lifecycle ==
    /\ [](status = "created" => DOMAIN instances = {})
    /\ [][\A k \in Ids :
              /\ (k \notin DOMAIN instances /\ k \in DOMAIN instances') => CmdStep(k)
              /\ (k \in DOMAIN instances /\ k \notin DOMAIN instances') =>
                    /\ TickStep
                    /\ instances[k].last_used < now - sleep_after]_vars

C15_Witness ==
    /\ lastSweep.done
    /\ \E k \in lastSweep.evicted : k \notin DOMAIN instances /\ calls[k] = 1
    /\ \E j \in DOMAIN instances : calls[j] = 1 /\ j \notin lastSweep.evicted

\* C16: the scenario with W = 60.  route(A) at 0 creates a worker with
\* last_used 0; route(A) at 30 reuses it and sets last_used 30; the sweep at
\* 65 keeps A; the sweep at 200 evicts A, and then one worker was created and
\* one stop issued for A.
C16_Scenario ==
    [][/\ (CmdStep("A") /\ now = 0 /\ "A" \notin DOMAIN instances /\ calls["A"] = 0) =>
            /\ "A" \in DOMAIN instances'
            /\ instances'["A"].last_used = 0
            /\ instances'["A"].actor \notin Handles
            /\ calls'["A"] = 1
       /\ (CmdStep("A") /\ now = 30 /\ "A" \in DOMAIN instances) =>
            /\ "A" \in DOMAIN instances'
            /\ instances'["A"].actor = instances["A"].actor
            /\ instances'["A"].last_used = 30
            /\ calls' = calls
       /\ (TickStep /\ now = 65 /\ "A" \in DOMAIN instances /\ instances["A"].last_used = 30) =>
            /\ "A" \in DOMAIN instances'
            /\ instances'["A"] = instances["A"]
            /\ StopsIssued(instances["A"].actor) = 0
       /\ (TickStep /\ now = 200 /\ "A" \in DOMAIN instances /\ instances["A"].last_used = 30) =>
            /\ "A" \notin DOMAIN instances'
            /\ StopsIssued(instances["A"].actor) = 1
            /\ (calls["A"] = 1 =>
                  \A h \in Handles : workers[h].name = "A" => h = instances["A"].actor)]_vars

C16_Witness ==
    /\ sleep_after = 60
    /\ Len(routed["A"]) = 2
    /\ lastRouted["A"] = 30
    /\ calls["A"] = 1
    /\ lastSweep.done
    /\ lastSweep.prev = 65
    /\ lastSweep.at = 200
    /\ lastSweep.evicted = {"A"}
    /\ "A" \notin DOMAIN instances
    /\ Cardinality(HandlesOf("A")) = 1
    /\ \A h \in HandlesOf("A") : workers[h].stops = 1 /\ Len(inbox[h]) = 2

\* C17: sweep frame condition.  Every entry left in the registry by a sweep
\* was there before with the same handle and the same last_used, and the
\* passivation window is unchanged.
C17_SweepFrame ==
    [][TickStep =>
          /\ \A k \in DOMAIN instances' :
                /\ k \in DOMAIN instances
                /\ instances'[k].actor = instances[k].actor
                /\ instances'[k].last_used = instances[k].last_used
          /\ sleep_after' = sleep_after]_vars

C17_Witness ==
    /\ lastSweep.done
    /\ lastSweep.evicted # {}
    /\ \E k \in DOMAIN instances :
          /\ instances[k].last_used < lastSweep.at
          /\ instances[k].last_used = lastRouted[k]
          /\ instances[k].last_used > 0

\* C18: no send after stop.  A payload is never told to a handle that was
\* told to stop; a command for an evicted identifier goes to a handle created
\* after the stop.
C18_NoSendAfterStop ==
    [][\A h \in DOMAIN inbox' :
          (h \notin DOMAIN inbox \/ inbox'[h] # inbox[h]) =>
              /\ workers'[h].stops = 0
              /\ \A g \in Handles : (workers[g].name = workers'[h].name /\ workers[g].stops > 0) => g < h]_vars

C18_Witness ==
    \E g, h \in Handles :
        /\ g < h
        /\ workers[g].name = workers[h].name
        /\ workers[g].stops = 1
        /\ inbox[g] # <<>>
        /\ inbox[h] # <<>>

\* C20: route frame condition.  Handling a command for k leaves every other
\* identifier's entry as it was, creates no worker but k's, tells nothing to
\* a worker of another identifier, stops no worker and schedules or cancels
\* no Tick.
C20_RouteFrame ==
    [][\A k \in Ids : CmdStep(k) =>
          /\ \A j \in Ids \ {k} :
                /\ (j \in DOMAIN instances') = (j \in DOMAIN instances)
                /\ j \in DOMAIN instances => instances'[j] = instances[j]
          /\ \A h \in Handles : workers'[h] = workers[h]
          /\ \A h \in DOMAIN workers' \ Handles : workers'[h].name = k
          /\ \A h \in Handles : workers[h].name # k => inbox'[h] = inbox[h]
          /\ timers' = timers
          /\ SelectSeq(mailbox', LAMBDA m : m.type = "Tick")
                = SelectSeq(mailbox, LAMBDA m : m.type = "Tick")]_vars

C20_Witness ==
    /\ DOMAIN instances = Ids
    /\ \E j, k \in Ids :
          /\ j # k
          /\ instances[j].actor < instances[k].actor
          /\ instances[j].last_used < instances[k].last_used

\* C19: eventual eviction.  An identifier in the registry that no command will
\* target any more, and whose window the clock can outrun, is eventually
\* removed from the registry.
NoMoreCmds(k) ==
    /\ ncmds = MaxCmds
    /\ \A i \in 1..Len(mailbox) : ~(mailbox[i].type = "Cmd" /\ mailbox[i].id = k)

C19_EvictionUnlessFaulted ==
    \A k \in Ids :
        (k \in DOMAIN instances /\ NoMoreCmds(k) /\ lastRouted[k] + sleep_after < MaxTime)
            ~> (k \notin DOMAIN instances \/ status = "faulted")

====
